---- MODULE Spec2Model ----
(***************************************************************************)
(* Model of the magic-link file server (netlify function api.js):          *)
(* one-time login JWTs, the in-memory redemption set usedJtis, the cookie  *)
(* session guard requireAuth and the GitHub-backed file routes; with the   *)
(* request-access handler of the earlier api.js, and the in-memory server  *)
(* server.js (access tokens, JWT bearer, the Maps users, files, tokens).   *)
(* Strings are sequences of one-character strings, so that escaping,       *)
(* prefix tests and substring tests are computed as the code computes them.*)
(***************************************************************************)
EXTENDS Integers, Sequences, FiniteSets, TLC

(* ------------------------------ bounds --------------------------------- *)
\* how many login tokens request-access may issue in one run
MaxTokens == 2
\* how many files the remote repository may hold
MaxFiles == 1
\* how many times a function instance may be restarted (SpecScaled only)
MaxRestarts == 1
\* how many identifiers uuidv4 may hand out in one run of the in-memory server
MaxUuids == 5

(* -------------------------- program constants -------------------------- *)
\* TOKEN_TTL_SECONDS = "900"; tokenTtl = Number(TOKEN_TTL_SECONDS)
tokenTtl == 900

\* const STORAGE_ROOT = "uploads"
STORAGE_ROOT == <<"u", "p", "l", "o", "a", "d", "s">>

\* res.cookie("auth", email, { maxAge: 6 * 60 * 60 * 1000 }), in seconds
sessionMaxAge == 6 * 60 * 60

\* server.js, expires: Date.now() + 3600000 (milliseconds)
accessTokenTtl == 3600000

\* server.js, jwt.sign(..., { expiresIn: '24h' }), in seconds
bearerTtl == 24 * 60 * 60

\* server.js, limits: { fileSize: 1000000 * 1024 * 1024 }, in KiB
serverFileSize == 1000000 * 1024

\* JWT_SECRET, the HMAC key of the server; AttackerKey is any other key
JWT_SECRET == "JWT_SECRET"
AttackerKey == "other-key"

(* ------------------------------ strings -------------------------------- *)
Empty == <<>>

\* String.prototype.startsWith
StartsWith(s, p) ==
    /\ Len(p) <= Len(s)
    /\ SubSeq(s, 1, Len(p)) = p

\* String.prototype.includes
Includes(s, p) ==
    \E i \in 1..(Len(s) - Len(p) + 1) : SubSeq(s, i, i + Len(p) - 1) = p

\* p.replace(/^\/+/, ""): drop every leading slash
RECURSIVE StripLeadingSlashes(_)
StripLeadingSlashes(s) ==
    IF s # <<>> /\ Head(s) = "/" THEN StripLeadingSlashes(Tail(s)) ELSE s

\* characters encodeURIComponent leaves alone (those of them the model uses)
Unreserved == {"a", "b", "c", "f", "m", "x", "y", "u", "p", "l", "o", "d", "s",
               "0", "1", "2", "3", "4", "5", "6", "7", "8", "9",
               "-", "_", ".", "!", "~", "*", "'", "(", ")"}

\* the %XX escape of one reserved character
PercentEscape(c) ==
    CASE c = "/" -> <<"%", "2", "F">>
      [] c = "@" -> <<"%", "4", "0">>
      [] c = "%" -> <<"%", "2", "5">>
      [] c = " " -> <<"%", "2", "0">>
      [] OTHER   -> <<"%", "3", "F">>

\* encodeURIComponent
RECURSIVE encodeURIComponent(_)
encodeURIComponent(s) ==
    IF s = <<>> THEN <<>>
    ELSE (IF Head(s) \in Unreserved THEN <<Head(s)>> ELSE PercentEscape(Head(s)))
         \o encodeURIComponent(Tail(s))

Digit(d) == <<"0", "1", "2", "3", "4", "5", "6", "7", "8", "9">>[d + 1]

\* the decimal string of a number, as a template literal prints it
RECURSIVE NumberToString(_)
NumberToString(n) ==
    IF n < 10 THEN <<Digit(n)>>
    ELSE NumberToString(n \div 10) \o <<Digit(n % 10)>>

\* /^[^\s@]+@[^\s@]+\.[^\s@]+$/.test(email)
EmailRegexTest(s) ==
    /\ \A i \in 1..Len(s) : s[i] # " "
    /\ \E i \in 2..(Len(s) - 3) :
          /\ s[i] = "@"
          /\ \A k \in 1..Len(s) : k # i => s[k] # "@"
          /\ \E j \in (i + 2)..(Len(s) - 1) : s[j] = "."

(* ------------------------------ inputs --------------------------------- *)
EmailA == <<"a", "@", "x", ".", "y">>
EmailB == <<"b", "@", "x", ".", "y">>
\* bodies of request-access that are not addresses
BadEmails == {Empty, <<"a", "@", "x">>, <<"a", " ", "@", "x", ".", "y">>}
Emails == {EmailA, EmailB}

\* the client writes its own Cookie header: any address, or none
CookieValues == Emails \cup {Empty}

\* the instants the clock is observed at: up to and around the expiry of a
\* token issued at 0
Instants == {0, tokenTtl - 1, tokenTtl, tokenTtl + 1}

(* ----------------------------- token codec ---------------------------- *)
\* HMAC over the encoded header and payload: a tag matches only the key and
\* the payload it was computed from
Hmac(key, payload) == [key |-> key, msg |-> payload]

NoPayload == [sub |-> Empty, jti |-> 0, iat |-> 0, exp |-> 0]

\* jwt.sign({ sub }, key, { expiresIn, jwtid }) at clock t
jwtSign(sub, key, expiresIn, jwtid, t) ==
    LET payload == [sub |-> sub, jti |-> jwtid, iat |-> t, exp |-> t + expiresIn]
    IN  [str |-> "jwt", payload |-> payload, sig |-> Hmac(key, payload)]

\* a query value that is not three base64url segments
GarbageToken == [str |-> "garbage", payload |-> NoPayload, sig |-> Hmac(AttackerKey, NoPayload)]
\* no token query parameter, or an empty one
MissingToken == [str |-> "", payload |-> NoPayload, sig |-> Hmac(AttackerKey, NoPayload)]

\* jwt.verify(token, key) at clock t: structure, then signature, then exp
jwtVerifyLate(token, key, t) ==
    IF token.str # "jwt" THEN [ok |-> FALSE, err |-> "jwt malformed", payload |-> NoPayload]
    ELSE IF token.sig # Hmac(key, token.payload)
         THEN [ok |-> FALSE, err |-> "invalid signature", payload |-> NoPayload]
    ELSE IF t > token.payload.exp
         THEN [ok |-> FALSE, err |-> "jwt expired", payload |-> NoPayload]
    ELSE [ok |-> TRUE, err |-> "", payload |-> token.payload]

jwtVerifyUnsigned(token, key, t) ==
    IF token.str # "jwt" THEN [ok |-> FALSE, err |-> "jwt malformed", payload |-> NoPayload]
    ELSE IF t >= token.payload.exp
         THEN [ok |-> FALSE, err |-> "jwt expired", payload |-> NoPayload]
    ELSE [ok |-> TRUE, err |-> "", payload |-> token.payload]

jwtVerify(token, key, t) ==
    IF token.str # "jwt" THEN [ok |-> FALSE, err |-> "jwt malformed", payload |-> NoPayload]
    ELSE IF token.sig # Hmac(key, token.payload)
         THEN [ok |-> FALSE, err |-> "invalid signature", payload |-> NoPayload]
    ELSE IF t >= token.payload.exp
         THEN [ok |-> FALSE, err |-> "jwt expired", payload |-> NoPayload]
    ELSE [ok |-> TRUE, err |-> "", payload |-> token.payload]

\* server.js, jwt.sign({ id: user.id, email: user.email }, JWT_SECRET,
\* { expiresIn: '24h' }) at clock t
signBearer(user, t) ==
    LET payload == [id |-> user.id, email |-> user.email, iat |-> t, exp |-> t + bearerTtl]
    IN  [str |-> "jwt", payload |-> payload, sig |-> Hmac(JWT_SECRET, payload)]

NoUser == [id |-> 0, email |-> Empty]

\* no Authorization header, or one without a second word
NoBearer ==
    LET payload == [id |-> 0, email |-> Empty, iat |-> 0, exp |-> 0]
    IN  [str |-> "", payload |-> payload, sig |-> Hmac(AttackerKey, payload)]

\* signLoginToken(email), with nanoid() drawn as the fresh identifier jti
signLoginTokenFixedSub(email, jti, t) == jwtSign(EmailA, JWT_SECRET, tokenTtl, jti, t)

signLoginTokenSameJti(email, jti, t) == jwtSign(email, JWT_SECRET, tokenTtl, 1, t)

signLoginToken(email, jti, t) == jwtSign(email, JWT_SECRET, tokenTtl, jti, t)

\* verifyOnce(token) against the set `used`; the result carries the set after
verifyOnceNoCheck(token, t, used) ==
    LET v == jwtVerify(token, JWT_SECRET, t)
    IN  IF ~v.ok THEN [ok |-> FALSE, err |-> v.err, sub |-> Empty, used |-> used]
        ELSE [ok |-> TRUE, err |-> "", sub |-> v.payload.sub,
              used |-> used \cup {v.payload.jti}]

verifyOnceNoAdd(token, t, used) ==
    LET v == jwtVerify(token, JWT_SECRET, t)
    IN  IF ~v.ok THEN [ok |-> FALSE, err |-> v.err, sub |-> Empty, used |-> used]
        ELSE IF v.payload.jti \in used
             THEN [ok |-> FALSE, err |-> "Token already used", sub |-> Empty, used |-> used]
        ELSE [ok |-> TRUE, err |-> "", sub |-> v.payload.sub, used |-> used]

verifyOnceEagerAdd(token, t, used) ==
    LET v == jwtVerify(token, JWT_SECRET, t)
        marked == IF token.str = "jwt" THEN used \cup {token.payload.jti} ELSE used
    IN  IF ~v.ok THEN [ok |-> FALSE, err |-> v.err, sub |-> Empty, used |-> marked]
        ELSE IF v.payload.jti \in used
             THEN [ok |-> FALSE, err |-> "Token already used", sub |-> Empty, used |-> used]
        ELSE [ok |-> TRUE, err |-> "", sub |-> v.payload.sub, used |-> marked]

verifyOnceForgets(token, t, used) ==
    LET v == jwtVerify(token, JWT_SECRET, t)
    IN  IF ~v.ok THEN [ok |-> FALSE, err |-> v.err, sub |-> Empty, used |-> used]
        ELSE IF v.payload.jti \in used
             THEN [ok |-> FALSE, err |-> "Token already used", sub |-> Empty, used |-> used]
        ELSE [ok |-> TRUE, err |-> "", sub |-> v.payload.sub, used |-> {v.payload.jti}]

verifyOnce(token, t, used) ==
    LET v == jwtVerify(token, JWT_SECRET, t)
    IN  IF ~v.ok THEN [ok |-> FALSE, err |-> v.err, sub |-> Empty, used |-> used]
        ELSE IF v.payload.jti \in used
             THEN [ok |-> FALSE, err |-> "Token already used", sub |-> Empty, used |-> used]
        ELSE [ok |-> TRUE, err |-> "", sub |-> v.payload.sub,
              used |-> used \cup {v.payload.jti}]

(* --------------------------- session guard ----------------------------- *)
\* requireAuth: the value of the cookie named auth becomes req.user
requireAuthOpen(cookie) == [ok |-> TRUE, user |-> cookie]

requireAuth(cookie) ==
    IF cookie = Empty THEN [ok |-> FALSE, user |-> Empty]
    ELSE [ok |-> TRUE, user |-> cookie]

(* ------------------------------ responses ------------------------------ *)
\* what one request produced: the HTTP answer (status, body, Set-Cookie auth
\* value, files named in the body, the JWT in the body), req.user, the
\* message console.error logged and whether upload.single ran (`parsed`)
Response(route, status, body) ==
    [route |-> route, status |-> status, body |-> body, cookie |-> Empty,
     user |-> Empty, log |-> "", parsed |-> FALSE, files |-> {}, jwt |-> NoBearer]

NoResponse == Response("none", 0, "")

(* ------------------------- GET /api/callback --------------------------- *)
\* the handler against the redemption set `used`: the response and the set after
callbackEchoReason(token, t, used) ==
    IF token.str = "" THEN [res |-> Response("callback", 400, "Missing token"), used |-> used]
    ELSE LET r == verifyOnce(token, t, used)
         IN  IF r.ok
             THEN [res |-> [Response("callback", 200, "Signed in") EXCEPT !.cookie = r.sub],
                   used |-> r.used]
             ELSE [res |-> [Response("callback", 400, r.err) EXCEPT !.log = r.err],
                   used |-> r.used]

callback(token, t, used) ==
    IF token.str = "" THEN [res |-> Response("callback", 400, "Missing token"), used |-> used]
    ELSE LET r == verifyOnce(token, t, used)
         IN  IF r.ok
             THEN [res |-> [Response("callback", 200, "Signed in") EXCEPT !.cookie = r.sub],
                   used |-> r.used]
             ELSE [res |-> [Response("callback", 400, "Invalid or expired token")
                               EXCEPT !.log = r.err],
                   used |-> r.used]

(* ---------------------- storage collaborator --------------------------- *)
Slash == <<"/">>

\* octokit.repos.getContent on a repository holding the files `rp`; `up` is
\* whether GitHub answers at all
ghGetContent(path, rp, up) ==
    LET dir == IF path # <<>> /\ path[Len(path)] = "/" THEN path ELSE path \o Slash
    IN  IF ~up THEN [status |-> 500, kind |-> "error"]
        ELSE IF path \in rp THEN [status |-> 200, kind |-> "file"]
        ELSE IF \E f \in rp : StartsWith(f, dir) THEN [status |-> 200, kind |-> "dir"]
        ELSE [status |-> 404, kind |-> "error"]

Call(op, path) == [op |-> op, path |-> path]

\* ghCreateOrUpdate(path, buffer, message): create, and on 422 read the sha
\* and update; the calls made, whether it returned, and the repository after
ghCreateOrUpdate(path, rp, up) ==
    IF ~up THEN [ok |-> FALSE, calls |-> {Call("createOrUpdateFileContents", path)}, repo |-> rp]
    ELSE IF path \in rp
         THEN [ok |-> TRUE,
               calls |-> {Call("createOrUpdateFileContents", path), Call("getContent", path)},
               repo |-> rp]
    ELSE [ok |-> TRUE, calls |-> {Call("createOrUpdateFileContents", path)},
          repo |-> rp \cup {path}]

\* sanitizePath(p): throws on an empty path or one that contains ".."
sanitizePathNoDots(p) ==
    IF p = Empty THEN [ok |-> FALSE, path |-> Empty]
    ELSE [ok |-> TRUE, path |-> StripLeadingSlashes(p)]

sanitizePath(p) ==
    IF p = Empty \/ Includes(p, <<".", ".">>) THEN [ok |-> FALSE, path |-> Empty]
    ELSE [ok |-> TRUE, path |-> StripLeadingSlashes(p)]

\* `${STORAGE_ROOT}/${encodeURIComponent(req.user)}`
userFolderRaw(user) == STORAGE_ROOT \o Slash \o user

userFolder(user) == STORAGE_ROOT \o Slash \o encodeURIComponent(user)

\* `${STORAGE_ROOT}/${encodeURIComponent(req.user)}/`
prefixOf(user) == userFolder(user) \o Slash

(* ------------------------------ multer --------------------------------- *)
\* limits: { fileSize: 10 * 1024 * 1024 }. Sizes are counted in KiB, so that
\* the limit of the in-memory server fits the integers of the checker
fileSize == 10 * 1024

allowedTypes == {"application/vnd.openxmlformats-officedocument.spreadsheetml.sheet",
                 "application/vnd.ms-excel", "text/csv", "application/x-sqlite3",
                 "application/octet-stream"}

\* the multipart body carries no part named file
NoFile == [present |-> FALSE, filename |-> Empty, mimetype |-> "", size |-> 0]

\* multer is built without preservePath, so the filename of the part is cut to
\* its base name: what follows the last slash or backslash, and "" for "." or ".."
basenameKeepPath(name) == name

basename(name) ==
    LET n == Len(name)
        cut == {i \in 1..n : name[i] \in {"/", "\\"}}
        last == IF cut = {} THEN 0 ELSE CHOOSE i \in cut : \A k \in cut : k <= i
        base == SubSeq(name, last + 1, n)
    IN  IF base \in {<<".">>, <<".", ".">>} THEN Empty ELSE base

\* upload.single("file"): fileFilter sees the part before its data is read
\* and passes its error to next(err); a part longer than limits.fileSize ends
\* in a MulterError; otherwise req.file carries originalname
uploadSingleAnyType(file) ==
    IF file.present /\ file.size > fileSize
    THEN [ok |-> FALSE, err |-> "File too large", originalname |-> Empty]
    ELSE [ok |-> TRUE, err |-> "", originalname |-> basename(file.filename)]

uploadSingle(file) ==
    IF file.present /\ file.mimetype \notin allowedTypes
    THEN [ok |-> FALSE, err |-> "File type not allowed", originalname |-> Empty]
    ELSE IF file.present /\ file.size > fileSize
         THEN [ok |-> FALSE, err |-> "File too large", originalname |-> Empty]
    ELSE [ok |-> TRUE, err |-> "", originalname |-> basename(file.filename)]

(* -------------------------- protected routes --------------------------- *)
\* each handler maps the request and the repository to the response, the
\* collaborator calls made and the repository after
Unauthenticated(route, rp) ==
    [res |-> Response(route, 401, "Not authenticated"), calls |-> {}, repo |-> rp]

\* POST /api/upload: requireAuth, upload.single("file"), then the handler;
\* t is the clock in seconds, Date.now() is in milliseconds
uploadRoute(cookie, file, t, rp, up) ==
    LET a == requireAuth(cookie)
        m == uploadSingle(file)
        path == userFolder(a.user) \o Slash \o NumberToString(t * 1000) \o <<"-">>
                    \o m.originalname
        g == ghCreateOrUpdate(path, rp, up)
    IN  IF ~a.ok THEN Unauthenticated("upload", rp)
        ELSE IF ~m.ok
             THEN [res |-> [Response("upload", 500, m.err) EXCEPT !.user = a.user, !.parsed = TRUE],
                   calls |-> {}, repo |-> rp]
        ELSE IF ~file.present
             THEN [res |-> [Response("upload", 400, "No file uploaded")
                               EXCEPT !.user = a.user, !.parsed = TRUE],
                   calls |-> {}, repo |-> rp]
        ELSE IF g.ok
             THEN [res |-> [Response("upload", 200, "ok")
                               EXCEPT !.user = a.user, !.parsed = TRUE, !.files = {path}],
                   calls |-> g.calls, repo |-> g.repo]
        ELSE [res |-> [Response("upload", 500, "Upload failed")
                          EXCEPT !.user = a.user, !.parsed = TRUE, !.log = "collaborator error"],
              calls |-> g.calls, repo |-> g.repo]

\* GET /api/list
listRouteWholeRepo(cookie, rp, up) ==
    LET a == requireAuth(cookie)
    IN  IF ~a.ok THEN Unauthenticated("list", rp)
        ELSE [res |-> [Response("list", 200, "files") EXCEPT !.user = a.user, !.files = rp],
              calls |-> {Call("getContent", STORAGE_ROOT)}, repo |-> rp]

listRoute(cookie, rp, up) ==
    LET a == requireAuth(cookie)
        folder == userFolder(a.user)
        r == ghGetContent(folder, rp, up)
    IN  IF ~a.ok THEN Unauthenticated("list", rp)
        ELSE IF r.status = 200
             THEN [res |-> [Response("list", 200, "files") EXCEPT
                               !.user = a.user,
                               !.files = IF r.kind = "dir"
                                         THEN {f \in rp : StartsWith(f, folder \o Slash)}
                                         ELSE {}],
                   calls |-> {Call("getContent", folder)}, repo |-> rp]
        ELSE IF r.status = 404
             THEN [res |-> [Response("list", 200, "files") EXCEPT !.user = a.user],
                   calls |-> {Call("getContent", folder)}, repo |-> rp]
        ELSE [res |-> [Response("list", 500, "List failed")
                          EXCEPT !.user = a.user, !.log = "collaborator error"],
              calls |-> {Call("getContent", folder)}, repo |-> rp]

\* GET /api/download?path=
downloadRoute(cookie, rawPath, rp, up) ==
    LET a == requireAuth(cookie)
        s == sanitizePath(rawPath)
        g == ghGetContent(s.path, rp, up)
    IN  IF ~a.ok THEN Unauthenticated("download", rp)
        ELSE IF ~s.ok
             THEN [res |-> [Response("download", 404, "File not found")
                               EXCEPT !.user = a.user, !.log = "Invalid path"],
                   calls |-> {}, repo |-> rp]
        ELSE IF ~StartsWith(s.path, prefixOf(a.user))
             THEN [res |-> [Response("download", 403, "Forbidden") EXCEPT !.user = a.user],
                   calls |-> {}, repo |-> rp]
        ELSE IF g.kind = "file"
             THEN [res |-> [Response("download", 200, "content")
                               EXCEPT !.user = a.user, !.files = {s.path}],
                   calls |-> {Call("getContent", s.path)}, repo |-> rp]
        ELSE [res |-> [Response("download", 404, "File not found")
                          EXCEPT !.user = a.user, !.log = "collaborator error"],
              calls |-> {Call("getContent", s.path)}, repo |-> rp]

\* DELETE /api/delete?path=; up2 is whether GitHub answers the deleteFile call
deleteRoute(cookie, rawPath, rp, up, up2) ==
    LET a == requireAuth(cookie)
        s == sanitizePath(rawPath)
        g == ghGetContent(s.path, rp, up)
    IN  IF ~a.ok THEN Unauthenticated("delete", rp)
        ELSE IF ~s.ok
             THEN [res |-> [Response("delete", 404, "File not found")
                               EXCEPT !.user = a.user, !.log = "Invalid path"],
                   calls |-> {}, repo |-> rp]
        ELSE IF ~StartsWith(s.path, prefixOf(a.user))
             THEN [res |-> [Response("delete", 403, "Forbidden") EXCEPT !.user = a.user],
                   calls |-> {}, repo |-> rp]
        ELSE IF g.status # 200
             THEN [res |-> [Response("delete", 404, "File not found")
                               EXCEPT !.user = a.user, !.log = "collaborator error"],
                   calls |-> {Call("getContent", s.path)}, repo |-> rp]
        ELSE IF g.kind = "file" /\ up2
             THEN [res |-> [Response("delete", 200, "ok")
                               EXCEPT !.user = a.user, !.files = {s.path}],
                   calls |-> {Call("getContent", s.path), Call("deleteFile", s.path)},
                   repo |-> rp \ {s.path}]
        ELSE [res |-> [Response("delete", 404, "File not found")
                          EXCEPT !.user = a.user, !.log = "collaborator error"],
              calls |-> {Call("getContent", s.path), Call("deleteFile", s.path)},
              repo |-> rp]

(* ---------------------- POST /api/request-access ----------------------- *)
\* the handler at clock t with nanoid() = jti; mailOk is whether
\* transporter.sendMail resolves. `signed` is the token it signed, if any
requestAccess(email, jti, t, mailOk) ==
    IF email = Empty \/ ~EmailRegexTest(email)
    THEN [res |-> Response("request-access", 400, "Valid email required"),
          signed |-> <<>>, mail |-> {}, sent |-> FALSE]
    ELSE IF mailOk
         THEN [res |-> Response("request-access", 200, "ok"),
               signed |-> <<signLoginToken(email, jti, t)>>, mail |-> {"sendMail"},
               sent |-> TRUE]
    ELSE [res |-> [Response("request-access", 500, "Failed to send email")
                      EXCEPT !.log = "sendMail error"],
          signed |-> <<signLoginToken(email, jti, t)>>, mail |-> {"sendMail"},
          sent |-> FALSE]

\* the handler of the earlier api.js: only a missing or empty email is refused
requestAccessLegacy(email, jti, t, mailOk) ==
    IF email = Empty
    THEN [res |-> Response("request-access", 400, "Email required"),
          signed |-> <<>>, mail |-> {}, sent |-> FALSE]
    ELSE IF mailOk
         THEN [res |-> Response("request-access", 200, "ok"),
               signed |-> <<signLoginToken(email, jti, t)>>, mail |-> {"sendMail"},
               sent |-> TRUE]
    ELSE [res |-> [Response("request-access", 500, "Failed to send email")
                      EXCEPT !.log = "sendMail error"],
          signed |-> <<signLoginToken(email, jti, t)>>, mail |-> {"sendMail"},
          sent |-> FALSE]

(* =================== the in-memory server (server.js) ================== *)
\* Map.prototype.set and Map.prototype.delete on a map held as a function
MapSet(map, k, v) == [x \in DOMAIN map \cup {k} |-> IF x = k THEN v ELSE map[x]]

MapDelete(map, k) == [x \in DOMAIN map \ {k} |-> map[x]]

EmptyMap == [x \in {} |-> 0]

\* authenticateToken: the second word of the Authorization header, verified
\* with jwt.verify at clock t; the payload becomes req.user
authenticateToken(bearer, t) ==
    IF bearer.str = ""
    THEN [ok |-> FALSE, status |-> 401, body |-> "Access token required", user |-> NoUser]
    ELSE LET v == jwtVerify(bearer, JWT_SECRET, t)
         IN  IF ~v.ok
             THEN [ok |-> FALSE, status |-> 403, body |-> "Invalid or expired token",
                   user |-> NoUser]
             ELSE [ok |-> TRUE, status |-> 200, body |-> "",
                   user |-> [id |-> v.payload.id, email |-> v.payload.email]]

\* POST /api/request-access at clock t (seconds; Date.now() is t * 1000),
\* with uuidv4() = uuid: the response, the tokens map after, how many
\* identifiers were drawn and the access token that was mailed, if any
serverRequestAccess(email, uuid, t, mailOk, tks) ==
    IF email = Empty
    THEN [res |-> Response("server-request-access", 400, "Email is required"),
          tokens |-> tks, drawn |-> 0, mailed |-> {}]
    ELSE LET stored == MapSet(tks, uuid, [email |-> email,
                                          expires |-> t * 1000 + accessTokenTtl])
         IN  IF mailOk
             THEN [res |-> Response("server-request-access", 200,
                                    "Access token sent to your email"),
                   tokens |-> stored, drawn |-> 1, mailed |-> {uuid}]
             ELSE [res |-> [Response("server-request-access", 500,
                                     "Failed to send access token")
                               EXCEPT !.log = "Error sending email"],
                   tokens |-> stored, drawn |-> 1, mailed |-> {}]

\* POST /api/verify-token; key = 0 stands for a body without token
verifyTokenKeep(key, t, uuid, tks, us) ==
    IF key = 0
    THEN [res |-> Response("verify-token", 400, "Token is required"),
          tokens |-> tks, users |-> us, drawn |-> 0]
    ELSE IF key \notin DOMAIN tks
         THEN [res |-> Response("verify-token", 401, "Invalid token"),
               tokens |-> tks, users |-> us, drawn |-> 0]
    ELSE IF t * 1000 > tks[key].expires
         THEN [res |-> Response("verify-token", 401, "Token expired"),
               tokens |-> MapDelete(tks, key), users |-> us, drawn |-> 0]
    ELSE LET email == tks[key].email
             fresh == email \notin DOMAIN us
             after == IF fresh THEN MapSet(us, email, [id |-> uuid, email |-> email])
                      ELSE us
         IN  [res |-> [Response("verify-token", 200, "token")
                          EXCEPT !.jwt = signBearer(after[email], t),
                                 !.user = email],
              tokens |-> tks, users |-> after,
              drawn |-> IF fresh THEN 1 ELSE 0]

\* a verify-token that makes a user record at every login
verifyTokenNewUser(key, t, uuid, tks, us) ==
    IF key = 0
    THEN [res |-> Response("verify-token", 400, "Token is required"),
          tokens |-> tks, users |-> us, drawn |-> 0]
    ELSE IF key \notin DOMAIN tks
         THEN [res |-> Response("verify-token", 401, "Invalid token"),
               tokens |-> tks, users |-> us, drawn |-> 0]
    ELSE IF t * 1000 > tks[key].expires
         THEN [res |-> Response("verify-token", 401, "Token expired"),
               tokens |-> MapDelete(tks, key), users |-> us, drawn |-> 0]
    ELSE LET email == tks[key].email
             after == MapSet(us, email, [id |-> uuid, email |-> email])
         IN  [res |-> [Response("verify-token", 200, "token")
                          EXCEPT !.jwt = signBearer(after[email], t),
                                 !.user = email],
              tokens |-> MapDelete(tks, key), users |-> after,
              drawn |-> 1]

verifyToken(key, t, uuid, tks, us) ==
    IF key = 0
    THEN [res |-> Response("verify-token", 400, "Token is required"),
          tokens |-> tks, users |-> us, drawn |-> 0]
    ELSE IF key \notin DOMAIN tks
         THEN [res |-> Response("verify-token", 401, "Invalid token"),
               tokens |-> tks, users |-> us, drawn |-> 0]
    ELSE IF t * 1000 > tks[key].expires
         THEN [res |-> Response("verify-token", 401, "Token expired"),
               tokens |-> MapDelete(tks, key), users |-> us, drawn |-> 0]
    ELSE LET email == tks[key].email
             fresh == email \notin DOMAIN us
             after == IF fresh THEN MapSet(us, email, [id |-> uuid, email |-> email])
                      ELSE us
         IN  [res |-> [Response("verify-token", 200, "token")
                          EXCEPT !.jwt = signBearer(after[email], t),
                                 !.user = email],
              tokens |-> MapDelete(tks, key), users |-> after,
              drawn |-> IF fresh THEN 1 ELSE 0]

\* the answer of a route behind authenticateToken when it refuses
Refused(route, a, fs) ==
    [res |-> Response(route, a.status, a.body), files |-> fs, drawn |-> 0]

\* upload.single("file") of server.js: its fileFilter accepts every part; a
\* part longer than limits.fileSize ends in a MulterError
serverUploadSingle(file) ==
    IF file.present /\ file.size > serverFileSize
    THEN [ok |-> FALSE, err |-> "File too large", originalname |-> Empty]
    ELSE [ok |-> TRUE, err |-> "", originalname |-> basename(file.filename)]

\* POST /api/upload with uuidv4() = uuid; a MulterError reaches the error
\* middleware at the end of the file
serverUpload(bearer, file, t, uuid, fs) ==
    LET a == authenticateToken(bearer, t)
        m == serverUploadSingle(file)
    IN  IF ~a.ok THEN Refused("server-upload", a, fs)
        ELSE IF ~m.ok
             THEN [res |-> [Response("server-upload", 500, "Internal server error")
                               EXCEPT !.user = a.user.email, !.parsed = TRUE, !.log = m.err],
                   files |-> fs, drawn |-> 0]
        ELSE IF ~file.present
             THEN [res |-> [Response("server-upload", 400, "No file uploaded")
                               EXCEPT !.user = a.user.email, !.parsed = TRUE],
                   files |-> fs, drawn |-> 0]
        ELSE [res |-> [Response("server-upload", 200, "file")
                          EXCEPT !.user = a.user.email, !.parsed = TRUE, !.files = {uuid}],
              files |-> MapSet(fs, uuid, [id |-> uuid, originalName |-> m.originalname,
                                          size |-> file.size, mimeType |-> file.mimetype,
                                          uploadedBy |-> a.user.id, uploadedAt |-> t]),
              drawn |-> 1]

\* GET /api/files
serverFiles(bearer, t, fs) ==
    LET a == authenticateToken(bearer, t)
    IN  IF ~a.ok THEN Refused("files", a, fs)
        ELSE [res |-> [Response("files", 200, "files") EXCEPT
                          !.user = a.user.email,
                          !.files = {id \in DOMAIN fs : fs[id].uploadedBy = a.user.id}],
              files |-> fs, drawn |-> 0]

\* GET /api/files/:id/download
serverDownload(bearer, id, t, fs) ==
    LET a == authenticateToken(bearer, t)
    IN  IF ~a.ok THEN Refused("file-download", a, fs)
        ELSE IF id \notin DOMAIN fs
             THEN [res |-> [Response("file-download", 404, "File not found")
                               EXCEPT !.user = a.user.email],
                   files |-> fs, drawn |-> 0]
        ELSE IF fs[id].uploadedBy # a.user.id
             THEN [res |-> [Response("file-download", 403, "Access denied")
                               EXCEPT !.user = a.user.email],
                   files |-> fs, drawn |-> 0]
        ELSE [res |-> [Response("file-download", 200, "content")
                          EXCEPT !.user = a.user.email, !.files = {id}],
              files |-> fs, drawn |-> 0]

\* DELETE /api/files/:id
serverDeleteAnyone(bearer, id, t, fs) ==
    LET a == authenticateToken(bearer, t)
    IN  IF ~a.ok THEN Refused("file-delete", a, fs)
        ELSE IF id \notin DOMAIN fs
             THEN [res |-> [Response("file-delete", 404, "File not found")
                               EXCEPT !.user = a.user.email],
                   files |-> fs, drawn |-> 0]
        ELSE [res |-> [Response("file-delete", 200, "File deleted successfully")
                          EXCEPT !.user = a.user.email, !.files = {id}],
              files |-> MapDelete(fs, id), drawn |-> 0]

serverDelete(bearer, id, t, fs) ==
    LET a == authenticateToken(bearer, t)
    IN  IF ~a.ok THEN Refused("file-delete", a, fs)
        ELSE IF id \notin DOMAIN fs
             THEN [res |-> [Response("file-delete", 404, "File not found")
                               EXCEPT !.user = a.user.email],
                   files |-> fs, drawn |-> 0]
        ELSE IF fs[id].uploadedBy # a.user.id
             THEN [res |-> [Response("file-delete", 403, "Access denied")
                               EXCEPT !.user = a.user.email],
                   files |-> fs, drawn |-> 0]
        ELSE [res |-> [Response("file-delete", 200, "File deleted successfully")
                          EXCEPT !.user = a.user.email, !.files = {id}],
              files |-> MapDelete(fs, id), drawn |-> 0]

(* ------------------------------- state --------------------------------- *)
VARIABLES
    now,        \* the clock, in seconds
    issued,     \* the login tokens signed and mailed, which clients hold; the jti
                \* of issued[k] is k (a token whose mail failed is held by nobody)
    usedJtis,   \* per function instance, the module-level Set usedJtis
    restarts,   \* how many times an instance was started again
    repo,       \* the paths of the files in the GitHub repository
    res,        \* the response to the latest request
    req,        \* the latest request, and what handling it did to usedJtis
    ghCalls,    \* the collaborator calls the latest request made
    prevFail,   \* the previous failed callback that carried a token, where observed
    okCount,    \* per jti, how many callbacks set a cookie for it, over all instances
    validTried, \* the jtis presented validly signed and unexpired to some callback
    sessions,   \* the subjects some successful callback set the cookie for
    users,      \* server.js: the Map users, email -> user
    files,      \* server.js: the Map files, id -> file
    tokens,     \* server.js: the Map tokens, access token -> tokenData
    uuids,      \* server.js: how many identifiers uuidv4 has handed out, per
                \* use (access token, user id, file id); the n-th of a use is n
    mailbox,    \* server.js: per access token mailed, its address, when it was
                \* issued, and whether it was verified or tried after its hour
    bearers     \* server.js: the JWTs verify-token has answered with

vars == <<now, issued, usedJtis, restarts, repo, res, req, ghCalls, prevFail,
          okCount, validTried, sessions, users, files, tokens, uuids, mailbox,
          bearers>>

\* the routes of api.js leave the state of server.js alone, and conversely
ServerUnchanged == UNCHANGED <<users, files, tokens, uuids, mailbox, bearers>>

ApiUnchanged == UNCHANGED <<issued, usedJtis, repo, ghCalls, prevFail, okCount,
                            validTried, sessions>>

\* a request as received: the clock jwt.verify read for it (0 when it read
\* none), the auth cookie, ?token=, ?path=, the file part, the email of the
\* body; and observations of its handling: `replay` (the token's jti was in
\* usedJtis on arrival), `added` (the jtis the handling inserted), `signed`
\* (the login token it signed), `mail` (the calls it made to the mailer) and
\* `up` (GitHub answered the calls it made)
Request(at, auth, token, path, file) ==
    [at |-> at, auth |-> auth, token |-> token, path |-> path, file |-> file,
     replay |-> FALSE, added |-> {}, email |-> Empty, signed |-> <<>>,
     mail |-> {}, up |-> TRUE, bearer |-> NoBearer, key |-> 0]

NoRequest == Request(0, Empty, MissingToken, Empty, NoFile)

\* the function instances (processes) serving requests; Spec runs the first alone
Instances == {1, 2}

NoFail == [log |-> "", status |-> 0, body |-> ""]

Init ==
    /\ now = 0
    /\ issued = <<>>
    /\ usedJtis = [i \in Instances |-> {}]
    /\ restarts = 0
    /\ repo = {}
    /\ res = NoResponse
    /\ req = NoRequest
    /\ ghCalls = {}
    /\ prevFail = NoFail
    /\ okCount = [j \in 1..MaxTokens |-> 0]
    /\ validTried = {}
    /\ sessions = {}
    /\ users = EmptyMap
    /\ files = EmptyMap
    /\ tokens = EmptyMap
    /\ uuids = [token |-> 0, user |-> 0, file |-> 0]
    /\ mailbox = EmptyMap
    /\ bearers = {}

(* --------------------------- client inputs ----------------------------- *)
OtherEmail(e) == IF e = EmailA THEN EmailB ELSE EmailA

\* what a client can put in ?token=: a token it was mailed, one of those with
\* the payload altered or re-signed under another key, garbage, or nothing
TokenInputs ==
    LET held == {issued[j] : j \in 1..Len(issued)}
    IN  held
        \cup {[tk EXCEPT !.payload.exp = @ + tokenTtl] : tk \in held}
        \cup {[tk EXCEPT !.sig = Hmac(AttackerKey, tk.payload)] : tk \in held}
        \cup {GarbageToken, MissingToken}

\* the filename the client puts in the multipart part: plain, or a path that
\* climbs out of the folder and into another subject's
FileNames == {<<"f">>,
              <<"x", "/", ".", ".", "/", ".", ".", "/">> \o encodeURIComponent(EmailB)
                  \o <<"/", "f">>}
\* the sizes of the parts, in KiB: small, and one KiB over 10 MiB
FileSizes == {1, 10 * 1024 + 1}

\* the file part of the request: a small sheet under either name, a small
\* image, a sheet over the limit, or no part
Files == {[present |-> TRUE, filename |-> n, mimetype |-> "text/csv", size |-> 1] :
             n \in FileNames}
         \cup {[present |-> TRUE, filename |-> <<"f">>, mimetype |-> "image/png", size |-> 1]}
         \cup {[present |-> TRUE, filename |-> <<"f">>, mimetype |-> "text/csv", size |-> s] :
                   s \in FileSizes}
         \cup {NoFile}

Users == CookieValues \ {Empty}

\* what a client can put in ?path=: a stored path, plain or with a leading
\* slash, nothing, a subject's folder or a name in it, and a path that enters
\* the caller's folder and climbs into another's
PathInputs ==
    repo \cup {Slash \o p : p \in repo} \cup {Empty}
    \cup {prefixOf(u) : u \in Users}
    \cup {prefixOf(u) \o <<"f">> : u \in Users}
    \cup {prefixOf(u) \o <<".", ".", "/">> \o encodeURIComponent(OtherEmail(u)) \o <<"/", "f">> :
             u \in Users}

\* server.js. The instants its clock is observed at, in seconds: up to and
\* around the hour after an access token issued at 0
ServerInstants == {0, 60 * 60, 60 * 60 + 1}

\* what a client can put in the body of verify-token: an access token that
\* was mailed, a guess, or nothing (0)
KeyInputs == DOMAIN mailbox \cup {0, -1}

\* what a client can put in the Authorization header: a JWT it was answered
\* with, one of those with another user's id written into the payload, or
\* nothing
BearerInputs ==
    bearers
    \cup UNION {{[b EXCEPT !.payload.id = users[e].id] :
                     e \in {x \in DOMAIN users : users[x].id # b.payload.id}} :
                  b \in bearers}
    \cup {NoBearer}

\* the file part: small, over 10 MiB, over the limit, or no part
ServerFileParts ==
    {[present |-> TRUE, filename |-> <<"f">>, mimetype |-> "text/csv", size |-> s] :
        s \in FileSizes \cup {serverFileSize + 1}}
    \cup {NoFile}

\* what a client can put in :id: the id of a stored file, or a guess
IdInputs == DOMAIN files \cup {-1}

(* ------------------------------ actions -------------------------------- *)
Protected == {"upload", "list", "download", "delete"}

AuthUnchanged == UNCHANGED <<now, issued, usedJtis, restarts, prevFail,
                             okCount, validTried, sessions, users, files, tokens,
                             uuids, mailbox, bearers>>

RequestAccess ==
    \E email \in Emails \cup BadEmails, mailOk \in BOOLEAN :
        LET r == requestAccess(email, Len(issued) + 1, now, mailOk)
        IN  /\ r.sent => Len(issued) < MaxTokens
            /\ issued' = IF r.sent THEN issued \o r.signed ELSE issued
            /\ res' = r.res
            /\ req' = [NoRequest EXCEPT !.email = email, !.signed = r.signed,
                                        !.mail = r.mail]
            /\ ghCalls' = {}
            /\ UNCHANGED <<now, usedJtis, restarts, repo, prevFail, okCount,
                           validTried, sessions>>
            /\ ServerUnchanged

\* the same request served by the earlier api.js
RequestAccessLegacy ==
    \E email \in Emails \cup BadEmails, mailOk \in BOOLEAN :
        LET r == requestAccessLegacy(email, Len(issued) + 1, now, mailOk)
        IN  /\ r.sent => Len(issued) < MaxTokens
            /\ issued' = IF r.sent THEN issued \o r.signed ELSE issued
            /\ res' = r.res
            /\ req' = [NoRequest EXCEPT !.email = email, !.signed = r.signed,
                                        !.mail = r.mail]
            /\ ghCalls' = {}
            /\ UNCHANGED <<now, usedJtis, restarts, repo, prevFail, okCount,
                           validTried, sessions>>
            /\ ServerUnchanged

\* one GET /api/callback served by instance i; the handler runs to completion
\* without yielding (it awaits nothing). With `observe`, the failed callback
\* answered before this one is kept in prevFail
CallbackAt(i, observe) ==
    \E token \in TokenInputs :
        LET r == callback(token, now, usedJtis[i])
            ok == r.res.status = 200
            jti == token.payload.jti
            genuine == token.str = "jwt" /\ token.sig = Hmac(JWT_SECRET, token.payload)
        IN  /\ usedJtis' = [usedJtis EXCEPT ![i] = r.used]
            /\ res' = r.res
            /\ req' = [Request(IF token.str = "" THEN 0 ELSE now, Empty, token, Empty, NoFile) EXCEPT
                          !.replay = token.str = "jwt" /\ jti \in usedJtis[i],
                          !.added = r.used \ usedJtis[i]]
            /\ ghCalls' = {}
            /\ prevFail' = IF observe /\ res.route = "callback" /\ res.log # ""
                           THEN [log |-> res.log, status |-> res.status, body |-> res.body]
                           ELSE prevFail
            /\ okCount' = IF ok /\ jti \in DOMAIN okCount
                          THEN [okCount EXCEPT ![jti] = @ + 1] ELSE okCount
            /\ validTried' = IF genuine /\ now < token.payload.exp
                             THEN validTried \cup {jti} ELSE validTried
            /\ sessions' = IF ok THEN sessions \cup {r.res.cookie} ELSE sessions
            /\ UNCHANGED <<now, issued, restarts, repo>>
            /\ ServerUnchanged

Callback == CallbackAt(1, FALSE)

CallbackObserved == CallbackAt(1, TRUE)

\* the file routes, with the cookie, the file part, ?path= and the state of
\* GitHub drawn from the given sets
UploadFrom(cookies, parts, ups) ==
    \E cookie \in cookies, file \in parts, up \in ups :
        LET r == uploadRoute(cookie, file, now, repo, up)
        IN  /\ Cardinality(r.repo) <= MaxFiles
            /\ repo' = r.repo
            /\ res' = r.res
            /\ req' = [Request(0, cookie, MissingToken, Empty, file)
                          EXCEPT !.up = r.calls = {} \/ up]
            /\ ghCalls' = r.calls
            /\ AuthUnchanged

Upload == UploadFrom(CookieValues, Files, BOOLEAN)

ListFrom(cookies, ups) ==
    \E cookie \in cookies, up \in ups :
        LET r == listRoute(cookie, repo, up)
        IN  /\ repo' = r.repo
            /\ res' = r.res
            /\ req' = [Request(0, cookie, MissingToken, Empty, NoFile)
                          EXCEPT !.up = r.calls = {} \/ up]
            /\ ghCalls' = r.calls
            /\ AuthUnchanged

List == ListFrom(CookieValues, BOOLEAN)

DownloadFrom(cookies, paths, ups) ==
    \E cookie \in cookies, rawPath \in paths, up \in ups :
        LET r == downloadRoute(cookie, rawPath, repo, up)
        IN  /\ repo' = r.repo
            /\ res' = r.res
            /\ req' = [Request(0, cookie, MissingToken, rawPath, NoFile)
                          EXCEPT !.up = r.calls = {} \/ up]
            /\ ghCalls' = r.calls
            /\ AuthUnchanged

Download == DownloadFrom(CookieValues, PathInputs, BOOLEAN)

DeleteFrom(cookies, paths, ups) ==
    \E cookie \in cookies, rawPath \in paths, up \in ups, up2 \in ups :
        LET r == deleteRoute(cookie, rawPath, repo, up, up2)
        IN  /\ repo' = r.repo
            /\ res' = r.res
            /\ req' = [Request(0, cookie, MissingToken, rawPath, NoFile)
                          EXCEPT !.up = \/ r.calls = {}
                                        \/ /\ up
                                           /\ (\E c \in r.calls : c.op = "deleteFile") => up2]
            /\ ghCalls' = r.calls
            /\ AuthUnchanged

Delete == DeleteFrom(CookieValues, PathInputs, BOOLEAN)

\* the file routes as used by a client that presents the cookie a callback
\* set, or none: it uploads a small sheet and names stored paths
SessionCookies == sessions \cup {Empty}

SheetPart == [present |-> TRUE, filename |-> <<"f">>, mimetype |-> "text/csv", size |-> 1]

SessionUpload == UploadFrom(SessionCookies, {SheetPart}, {TRUE})

SessionList == ListFrom(SessionCookies, {TRUE})

SessionDownload == DownloadFrom(SessionCookies, repo \cup {Empty}, {TRUE})

SessionDelete == DeleteFrom(SessionCookies, repo \cup {Empty}, {TRUE})

\* time passes
Tick ==
    /\ \E t \in Instants : t > now /\ now' = t
    /\ UNCHANGED <<issued, usedJtis, restarts, repo, res, req, ghCalls,
                   prevFail, okCount, validTried, sessions>>
    /\ ServerUnchanged

\* the lifetime of a session cookie passes
SessionTick ==
    /\ now < sessionMaxAge
    /\ now' = now + sessionMaxAge
    /\ UNCHANGED <<issued, usedJtis, restarts, repo, res, req, ghCalls,
                   prevFail, okCount, validTried, sessions>>
    /\ ServerUnchanged

\* a function instance is started again: module-level state is built anew
Restart ==
    \E i \in Instances :
        /\ restarts < MaxRestarts
        /\ restarts' = restarts + 1
        /\ usedJtis' = [usedJtis EXCEPT ![i] = {}]
        /\ res' = NoResponse
        /\ req' = NoRequest
        /\ ghCalls' = {}
        /\ UNCHANGED <<now, issued, repo, prevFail, okCount, validTried, sessions>>
        /\ ServerUnchanged

CallbackElsewhere == CallbackAt(2, FALSE)

(* ------------------------- actions of server.js ------------------------ *)
\* uuidv4() never returns a value twice; identifiers of different uses are
\* never compared with one another, so each use is numbered on its own
Drawn(use, n) ==
    /\ uuids.token + uuids.user + uuids.file + n <= MaxUuids
    /\ uuids' = [uuids EXCEPT ![use] = @ + n]

\* the routes, with the body, the Authorization header, the file part, :id
\* and the outcome of sendMail drawn from the given sets
ServerRequestAccessFrom(emails, mails) ==
    \E email \in emails, mailOk \in mails :
        LET r == serverRequestAccess(email, uuids.token + 1, now, mailOk, tokens)
        IN  /\ Drawn("token", r.drawn)
            /\ uuids.token + r.drawn <= MaxTokens
            /\ tokens' = r.tokens
            /\ mailbox' = IF r.mailed = {} THEN mailbox
                          ELSE MapSet(mailbox, uuids.token + 1,
                                      [email |-> email, at |-> now, spent |-> FALSE])
            /\ res' = r.res
            /\ req' = [NoRequest EXCEPT !.email = email]
            /\ UNCHANGED <<now, restarts, users, files, bearers>>
            /\ ApiUnchanged

ServerRequestAccess == ServerRequestAccessFrom(Emails \cup {Empty}, BOOLEAN)

\* POST /api/verify-token. The mailbox notes a token as spent when it was
\* verified, or tried later than an hour after it was issued
ServerVerifyToken ==
    \E key \in KeyInputs :
        LET r == verifyToken(key, now, uuids.user + 1, tokens, users)
            known == key \in DOMAIN mailbox
            late == known /\ now > mailbox[key].at + 60 * 60
        IN  /\ Drawn("user", r.drawn)
            /\ tokens' = r.tokens
            /\ users' = r.users
            /\ bearers' = IF r.res.status = 200 THEN bearers \cup {r.res.jwt} ELSE bearers
            /\ mailbox' = IF known /\ (r.res.status = 200 \/ late)
                          THEN [mailbox EXCEPT ![key].spent = TRUE] ELSE mailbox
            /\ res' = r.res
            /\ req' = [NoRequest EXCEPT !.at = now, !.key = key,
                                        !.replay = known /\ mailbox[key].spent]
            /\ UNCHANGED <<now, restarts, files>>
            /\ ApiUnchanged

ServerUploadFrom(bs, parts) ==
    \E bearer \in bs, file \in parts :
        LET r == serverUpload(bearer, file, now, uuids.file + 1, files)
        IN  /\ Drawn("file", r.drawn)
            /\ files' = r.files
            /\ res' = r.res
            /\ req' = [NoRequest EXCEPT !.bearer = bearer, !.file = file]
            /\ UNCHANGED <<now, restarts, users, tokens, mailbox, bearers>>
            /\ ApiUnchanged

ServerUpload == ServerUploadFrom(BearerInputs, ServerFileParts)

ServerFilesFrom(bs) ==
    \E bearer \in bs :
        LET r == serverFiles(bearer, now, files)
        IN  /\ files' = r.files
            /\ res' = r.res
            /\ req' = [NoRequest EXCEPT !.bearer = bearer]
            /\ UNCHANGED <<now, restarts, users, tokens, uuids, mailbox, bearers>>
            /\ ApiUnchanged

ServerFiles == ServerFilesFrom(BearerInputs)

ServerDownloadFrom(bs, ids) ==
    \E bearer \in bs, id \in ids :
        LET r == serverDownload(bearer, id, now, files)
        IN  /\ files' = r.files
            /\ res' = r.res
            /\ req' = [NoRequest EXCEPT !.bearer = bearer, !.key = id]
            /\ UNCHANGED <<now, restarts, users, tokens, uuids, mailbox, bearers>>
            /\ ApiUnchanged

ServerDownload == ServerDownloadFrom(BearerInputs, IdInputs)

ServerDeleteFrom(bs, ids) ==
    \E bearer \in bs, id \in ids :
        LET r == serverDelete(bearer, id, now, files)
        IN  /\ files' = r.files
            /\ res' = r.res
            /\ req' = [NoRequest EXCEPT !.bearer = bearer, !.key = id]
            /\ UNCHANGED <<now, restarts, users, tokens, uuids, mailbox, bearers>>
            /\ ApiUnchanged

ServerDelete == ServerDeleteFrom(BearerInputs, IdInputs)

\* time passes
ServerTickTo(instants) ==
    /\ \E t \in instants : t > now /\ now' = t
    /\ UNCHANGED <<restarts, res, req, users, files, tokens, uuids, mailbox, bearers>>
    /\ ApiUnchanged

ServerTick == ServerTickTo(ServerInstants)

\* the routes as used by clients that log in more than once: they ask for
\* access tokens that get delivered, present the JWTs they were answered
\* with, upload a small sheet and name stored files, within the hour
LoginRequestAccess == ServerRequestAccessFrom(Emails, {TRUE})

LoginUpload == ServerUploadFrom(bearers, {SheetPart})

LoginFiles == ServerFilesFrom(bearers)

LoginDownload == ServerDownloadFrom(bearers, DOMAIN files)

LoginDelete == ServerDeleteFrom(bearers, DOMAIN files)

LoginTick == ServerTickTo({60 * 60})

\* The routes fall into two groups that share no program state: request-access
\* and callback read and write usedJtis and the tokens; the file routes read
\* the cookie and the repository only. Each group is explored on its own, and
\* the guard with both.

\* one process from its start: the magic-link protocol
Next ==
    \/ RequestAccess
    \/ Callback
    \/ Tick

Spec == Init /\ [][Next]_vars

\* the same, keeping the previous failed callback for comparison
NextObserved ==
    \/ RequestAccess
    \/ CallbackObserved
    \/ Tick

SpecObserved == Init /\ [][NextObserved]_vars

\* one process from its start: the magic-link protocol and a guarded route
NextGuarded ==
    \/ RequestAccess
    \/ Callback
    \/ List
    \/ Tick

SpecGuarded == Init /\ [][NextGuarded]_vars

\* the same over the lifetime of a session cookie
NextSession ==
    \/ RequestAccess
    \/ Callback
    \/ List
    \/ Tick
    \/ SessionTick

SpecSession == Init /\ [][NextSession]_vars

\* one process from its start: the guarded file routes over the repository
NextFiles ==
    \/ Upload
    \/ List
    \/ Download
    \/ Delete
    \/ Tick

SpecFiles == Init /\ [][NextFiles]_vars

\* the deployment as a serverless function: two instances, each with its own
\* usedJtis, either of which may be started again
NextScaled ==
    \/ RequestAccess
    \/ Callback
    \/ CallbackElsewhere
    \/ Restart
    \/ Tick

SpecScaled == Init /\ [][NextScaled]_vars

\* server.js, one process from its start: the access tokens over time
NextServer ==
    \/ ServerRequestAccess
    \/ ServerVerifyToken
    \/ ServerTick

SpecServer == Init /\ [][NextServer]_vars

\* server.js, one process from its start: the file routes behind the JWT
NextServerFiles ==
    \/ ServerRequestAccess
    \/ ServerVerifyToken
    \/ ServerUpload
    \/ ServerFiles
    \/ ServerDownload
    \/ ServerDelete

SpecServerFiles == Init /\ [][NextServerFiles]_vars

\* one process from its start: every route of api.js
NextLedger ==
    \/ RequestAccess
    \/ Callback
    \/ SessionUpload
    \/ SessionList
    \/ SessionDownload
    \/ SessionDelete
    \/ SessionTick

SpecLedger == Init /\ [][NextLedger]_vars

\* server.js, one process from its start: the file routes over several logins
NextServerLogins ==
    \/ LoginRequestAccess
    \/ ServerVerifyToken
    \/ LoginUpload
    \/ LoginFiles
    \/ LoginDownload
    \/ LoginDelete
    \/ LoginTick

SpecServerLogins == Init /\ [][NextServerLogins]_vars

\* the earlier api.js: its request-access handler
NextLegacy ==
    \/ RequestAccessLegacy
    \/ Tick

SpecLegacy == Init /\ [][NextLegacy]_vars

(* ============================ properties =============================== *)
\* the segments of a path, split at "/"
RECURSIVE Segments(_)
Segments(s) ==
    IF s = <<>> THEN << <<>> >>
    ELSE LET rest == Segments(Tail(s))
         IN  IF Head(s) = "/" THEN << <<>> >> \o rest
             ELSE << <<Head(s)>> \o Head(rest) >> \o Tail(rest)

\* the location a path names in the repository tree: empty and "." segments
\* dropped, ".." stepping up
RECURSIVE Resolve(_, _)
Resolve(segs, acc) ==
    IF segs = <<>> THEN acc
    ELSE LET h == Head(segs)
         IN  Resolve(Tail(segs),
                     IF h = <<>> \/ h = <<".">> THEN acc
                     ELSE IF h = <<".", ".">>
                          THEN (IF acc = <<>> THEN acc ELSE SubSeq(acc, 1, Len(acc) - 1))
                     ELSE Append(acc, h))

\* the path is located in the namespace of subject s: in uploads/<escaped s>/
InNamespace(path, s) ==
    LET at == Resolve(Segments(path), <<>>)
    IN  /\ Len(at) >= 2
        /\ at[1] = STORAGE_ROOT
        /\ at[2] = encodeURIComponent(s)

\* the token is one signLoginToken produced, bit for bit
IsIssued(token) == \E k \in 1..Len(issued) : issued[k] = token

Jtis == 1..Len(issued)

\* C1: a validly signed, unexpired login token presented to any number of
\* callbacks of one process is redeemed by exactly one of them: never twice,
\* and once as soon as one such callback has been served.
C1_ExactlyOneRedemption ==
    \A j \in Jtis :
        /\ okCount[j] <= 1
        /\ j \in validTried => okCount[j] = 1

\* a further callback carrying a redeemed, still valid token was refused
C1_Witness ==
    /\ res.route = "callback"
    /\ res.log = "Token already used"
    /\ IsIssued(req.token)
    /\ okCount[req.token.payload.jti] = 1

\* C2: whenever requireAuth lets a request through as subject S, a callback
\* has earlier set the session cookie for S (a client-chosen cookie value is
\* never taken as an identity).
C2_GuardAcceptsOnlyRedeemedSubjects ==
    (res.route \in Protected /\ res.status # 401) => res.user \in sessions

\* C3: every path a request authorized as S hands to the storage collaborator
\* is located in uploads/<escaped S>/ and in no other subject's folder.
C3_PathsStayInNamespace ==
    res.route \in Protected =>
        \A c \in ghCalls :
            /\ InNamespace(c.path, res.user)
            /\ \A u \in Users \ {res.user} : ~InNamespace(c.path, u)

\* an upload whose client filename climbs towards another subject's folder
\* was stored
C3_Witness ==
    /\ res.route = "upload"
    /\ res.status = 200
    /\ Includes(req.file.filename, <<".", ".">>)
    /\ ghCalls # {}

\* C4: an authenticated download or delete whose path is not located in the
\* caller's namespace is answered 403, never 404.
C4_OutsideNamespaceIsForbidden ==
    (/\ res.route \in {"download", "delete"}
     /\ req.auth # Empty
     /\ req.path # Empty
     /\ ~InNamespace(req.path, req.auth)) => res.status = 403

\* C5: a protected request without a credential is answered 401 before
\* upload parsing and before any collaborator call; collaborator calls are
\* made only for the subject the guard read from the credential.
C5_GuardRunsFirst ==
    res.route \in Protected =>
        /\ req.auth = Empty => (res.status = 401 /\ ghCalls = {} /\ ~res.parsed)
        /\ (ghCalls # {} \/ res.parsed) => (req.auth # Empty /\ res.user = req.auth)

\* an upload with a file part and no cookie was refused
C5_Witness ==
    /\ res.route = "upload"
    /\ req.auth = Empty
    /\ req.file.present
    /\ res.status = 401

\* C6: a redeemed jti stays in the ledger of the process, and every callback
\* arriving with a token of that jti fails and changes nothing, whether the
\* token is valid, expired or badly signed.
C6_RedeemedIsAbsorbing ==
    /\ \A j \in Jtis : okCount[j] >= 1 => j \in usedJtis[1]
    /\ (res.route = "callback" /\ req.replay) =>
           (res.status = 400 /\ res.cookie = Empty /\ req.added = {})

\* a redeemed token came back after its expiry and was refused
C6_Witness ==
    /\ res.route = "callback"
    /\ req.replay
    /\ IsIssued(req.token)
    /\ req.at >= req.token.payload.exp
    /\ res.status = 400

\* C7: over all instances and restarts a token is redeemed at most once.
C7_SingleUseAcrossInstances ==
    \A j \in Jtis : okCount[j] <= 1

\* every token expires tokenTtl after it was issued
ExpiryIsIssuePlusTtl ==
    \A k \in Jtis : issued[k].payload.exp = issued[k].payload.iat + tokenTtl

\* C8 (as claimed): an issued token fails as expired exactly at the instants
\* after expiresAt = issuedAt + TTL, and not at expiresAt itself.
C8_ExpiredOnlyAfterExp ==
    /\ ExpiryIsIssuePlusTtl
    /\ (res.route = "callback" /\ IsIssued(req.token)) =>
           (res.log = "jwt expired" <=> req.at > req.token.payload.exp)

\* C8 (amended): an issued token fails as expired exactly at the instants
\* at or after expiresAt = issuedAt + TTL.
C8_ExpiredFromExp ==
    /\ ExpiryIsIssuePlusTtl
    /\ (res.route = "callback" /\ IsIssued(req.token)) =>
           (res.log = "jwt expired" <=> req.at >= req.token.payload.exp)

\* an issued token was presented at its expiry instant exactly
C8_Witness ==
    /\ res.route = "callback"
    /\ IsIssued(req.token)
    /\ req.at = req.token.payload.exp
    /\ res.log = "jwt expired"

\* C9: a callback whose token does not decode (garbage, bad signature or
\* expired) is answered 400, sets no cookie and inserts nothing in the ledger.
C9_FailedDecodeLeavesLedger ==
    (/\ res.route = "callback"
     /\ req.token.str # ""
     /\ (~IsIssued(req.token) \/ req.at >= req.token.payload.exp)) =>
        (res.status = 400 /\ res.cookie = Empty /\ req.added = {})

\* a garbage token was refused while the ledger held an entry
C9_Witness ==
    /\ res.route = "callback"
    /\ req.token = GarbageToken
    /\ res.status = 400
    /\ usedJtis[1] # {}

\* C10: two failed callbacks that carried a token get the same status and the
\* same body, "Invalid or expired token", whatever made each fail.
C10_FailuresLookAlike ==
    (res.route = "callback" /\ res.log # "") =>
        /\ res.status = 400
        /\ res.body = "Invalid or expired token"
        /\ prevFail # NoFail =>
               (res.status = prevFail.status /\ res.body = prevFail.body)

\* a replay was refused after a badly signed token had been refused
C10_Witness ==
    /\ res.route = "callback"
    /\ res.log = "Token already used"
    /\ prevFail.log \in {"invalid signature", "jwt expired"}

\* C11: request-access signs the token for the address it accepted; the
\* first callback carrying an issued token while it is unexpired succeeds and
\* sets the cookie to exactly that address; a callback with the same token
\* after that fails with 400 and sets no cookie.
C11_FirstRedemptionBindsSubject ==
    /\ (res.route = "request-access" /\ res.status = 200) =>
           /\ EmailRegexTest(req.email)
           /\ req.signed = <<issued[Len(issued)]>>
           /\ issued[Len(issued)].payload.sub = req.email
    /\ (res.route = "callback" /\ IsIssued(req.token)
            /\ req.at < req.token.payload.exp) =>
           \/ /\ res.status = 200
              /\ res.cookie = req.token.payload.sub
              /\ ~req.replay
              /\ okCount[req.token.payload.jti] = 1
           \/ /\ res.status = 400
              /\ res.cookie = Empty
              /\ req.replay
              /\ okCount[req.token.payload.jti] = 1

\* the token mailed to the second address was redeemed for that address, and
\* the same token was then refused
C11_Witness ==
    /\ res.route = "callback"
    /\ res.status = 400
    /\ req.replay
    /\ IsIssued(req.token)
    /\ req.token.payload.sub = EmailB
    /\ req.at < req.token.payload.exp
    /\ sessions = {EmailB}

\* C12: request-access with a missing or syntactically invalid email is
\* answered 400, signs no login token and does not call the mailer.
C12_InvalidEmailRejectedLocally ==
    (res.route = "request-access"
        /\ (req.email = Empty \/ ~EmailRegexTest(req.email))) =>
        (res.status = 400 /\ req.signed = <<>> /\ req.mail = {})

\* C13: the tokens issued carry pairwise different identifiers; a callback
\* with an issued token fails only for that token's own expiry or its own
\* earlier redemption, whatever was issued or redeemed besides it; and a
\* redemption enters the ledger under that token's identifier alone.
C13_TokensAreIndependent ==
    /\ \A j \in Jtis, k \in Jtis : j # k => issued[j].payload.jti # issued[k].payload.jti
    /\ (res.route = "callback" /\ IsIssued(req.token)) =>
           /\ res.status # 200 =>
                  \/ req.at >= req.token.payload.exp
                  \/ (req.replay /\ okCount[req.token.payload.jti] = 1)
           /\ res.status = 200 => req.added = {req.token.payload.jti}

\* the earlier of two tokens of one address was redeemed after the later one
\* had been issued and redeemed
C13_Witness ==
    /\ res.route = "callback"
    /\ res.status = 200
    /\ Len(issued) = 2
    /\ req.token = issued[1]
    /\ issued[2].payload.sub = issued[1].payload.sub
    /\ okCount[2] = 1

\* C14: a request with a cookie whose file part has a MIME type outside
\* allowedTypes is answered with an error, makes no call to the storage
\* collaborator and leaves the repository as it was.
C14_DisallowedTypeStoresNothing ==
    [][(/\ res'.route = "upload"
        /\ req'.auth # Empty
        /\ req'.file.present
        /\ req'.file.mimetype \notin allowedTypes)
           => (res'.status >= 400 /\ ghCalls' = {} /\ repo' = repo)]_vars

\* an image was refused while the repository held a file
C14_Witness ==
    /\ res.route = "upload"
    /\ req.auth # Empty
    /\ req.file.mimetype = "image/png"
    /\ res.body = "File type not allowed"
    /\ repo # {}

\* C15: a protected request presenting the cookie of subject S is answered
\* 401 once every session of S is older than sessionMaxAge. A session of S
\* is set by redeeming a token of S before that token's exp, so all of them
\* are that old when now >= exp + sessionMaxAge for every token of S.
C15_SessionHardExpires ==
    (/\ res.route \in Protected
     /\ req.auth \in sessions
     /\ \A k \in Jtis : issued[k].payload.sub = req.auth =>
                             now >= issued[k].payload.exp + sessionMaxAge) =>
        res.status = 401

\* C16: on an authenticated download or delete, a missing path is answered
\* 400, a failure of the storage collaborator other than the object being
\* absent is answered 500, and 404 is answered only when no object is stored
\* at the path.
C16_NotFoundOnlyWhenAbsent ==
    (res.route \in {"download", "delete"} /\ req.auth # Empty) =>
        /\ req.path = Empty => res.status = 400
        /\ (ghCalls # {} /\ ~req.up) => res.status = 500
        /\ res.status = 404 =>
               (req.path # Empty /\ StripLeadingSlashes(req.path) \notin repo)

\* C17: a list request of subject S that GitHub answers, while nothing is
\* stored in the namespace of S, is answered 200 with no entries; and every
\* entry a list request of S returns is a stored file located in the
\* namespace of S.
C17_ListIsEmptyOrOwn ==
    (res.route = "list" /\ req.auth # Empty) =>
        /\ (req.up /\ \A f \in repo : ~InNamespace(f, req.auth)) =>
               (res.status = 200 /\ res.files = {})
        /\ \A f \in res.files : f \in repo /\ InNamespace(f, req.auth)

\* a subject with nothing stored listed its folder, which GitHub reported
\* as not found, while the repository held a file of the other subject
C17_Witness ==
    /\ res.route = "list"
    /\ req.auth = EmailA
    /\ req.up
    /\ res.status = 200
    /\ res.files = {}
    /\ \E f \in repo : InNamespace(f, EmailB)

\* C18: in server.js, a list request answers with exactly the stored files
\* whose uploader is the requesting user, and a download or delete by one
\* user of a stored file another user uploaded is answered 403 and leaves
\* the files map as it was.
C18_OwnFilesOnly ==
    [][/\ (res'.route = "files" /\ res'.status = 200) =>
              res'.files = {id \in DOMAIN files' :
                               files'[id].uploadedBy = req'.bearer.payload.id}
       /\ (/\ res'.route \in {"file-download", "file-delete"}
           /\ req'.bearer \in bearers
           /\ req'.key \in DOMAIN files
           /\ files[req'.key].uploadedBy # req'.bearer.payload.id) =>
              (res'.status = 403 /\ files' = files)]_vars

\* a user asked to delete a stored file of another user and was refused
C18_Witness ==
    /\ res.route = "file-delete"
    /\ res.status = 403
    /\ req.bearer \in bearers
    /\ req.key \in DOMAIN files
    /\ files[req.key].uploadedBy # req.bearer.payload.id

\* C19: in server.js, an access token that was verified, or tried later
\* than an hour after it was issued, is no longer in the tokens map, and
\* every verify-token with it from then on is answered 401; verify-token
\* answers 200 only for a token not verified before and not later than an
\* hour after it was issued.
C19_AccessTokenSingleUse ==
    /\ \A k \in DOMAIN mailbox : mailbox[k].spent => k \notin DOMAIN tokens
    /\ (res.route = "verify-token" /\ req.key \in DOMAIN mailbox) =>
           /\ req.replay => res.status = 401
           /\ res.status = 200 =>
                  (~req.replay /\ req.at <= mailbox[req.key].at + 60 * 60)
           /\ (res.status = 200 \/ res.body = "Token expired") => mailbox[req.key].spent

\* a verified token was presented again within its hour and refused
C19_Witness ==
    /\ res.route = "verify-token"
    /\ req.key \in DOMAIN mailbox
    /\ req.replay
    /\ req.at <= mailbox[req.key].at + 60 * 60
    /\ res.status = 401

\* C20: under either server an upload whose file is larger than 10 MiB is
\* answered with an error and stores nothing.
C20_UploadLimitIsTenMiB ==
    /\ (res.route \in {"upload", "server-upload"} /\ req.file.present
            /\ req.file.size > fileSize) =>
           (res.status >= 400 /\ res.files = {} /\ ghCalls = {})
    /\ \A id \in DOMAIN files : files[id].size <= fileSize

\* C21: a step changes usedJtis only if it is a callback answered 200, and
\* that step adds the jti of its token, which was not in the set, and nothing
\* else; request-access, the file routes and failed callbacks leave the set
\* as it was, and no step removes an entry. Every callback answered 200
\* does add its jti.
C21_LedgerChangesOnlyByRedemption ==
    [][/\ \A i \in Instances : usedJtis[i] \subseteq usedJtis'[i]
       /\ usedJtis' # usedJtis =>
              /\ res'.route = "callback"
              /\ res'.status = 200
              /\ req'.token.payload.jti \notin usedJtis[1]
              /\ usedJtis' = [usedJtis EXCEPT ![1] = @ \cup {req'.token.payload.jti}]
       /\ okCount' # okCount => usedJtis' # usedJtis]_vars

\* a stored file was deleted while the ledger held a redeemed jti
C21_Witness ==
    /\ res.route = "delete"
    /\ res.status = 200
    /\ usedJtis[1] # {}
    /\ repo = {}

\* how many callbacks have set a session cookie, over the jtis 1..n
RECURSIVE CookiesSet(_)
CookiesSet(n) == IF n = 0 THEN 0 ELSE okCount[n] + CookiesSet(n - 1)

\* C22: in one process, as many callbacks have set a session cookie as
\* usedJtis has entries; every entry is the jti of a token signLoginToken
\* produced for a request-access; and a callback that sets the cookie
\* carries such a token, bit for bit, at a time not after its exp.
C22_LedgerCountsRedemptions ==
    /\ CookiesSet(MaxTokens) = Cardinality(usedJtis[1])
    /\ \A j \in usedJtis[1] :
           /\ j \in Jtis
           /\ issued[j].payload.jti = j
           /\ issued[j] = signLoginToken(issued[j].payload.sub, j, issued[j].payload.iat)
           /\ okCount[j] = 1
    /\ (res.route = "callback" /\ res.status = 200) =>
           /\ IsIssued(req.token)
           /\ req.at <= req.token.payload.exp
           /\ req.token.payload.jti \in usedJtis[1]

\* the second of two redemptions was made after the clock had moved
C22_Witness ==
    /\ res.route = "callback"
    /\ res.status = 200
    /\ req.at > 0
    /\ Cardinality(usedJtis[1]) = 2
    /\ CookiesSet(MaxTokens) = 2

\* the files of the user record of an email
FilesOf(e) == {id \in DOMAIN files : files[id].uploadedBy = users[e].id}

\* C23: in server.js there is at most one user record per email and its id
\* never changes once created: every JWT verify-token has issued for an
\* email, at any login of one process, carries the id of the one user record
\* of that email, so the files uploaded in an earlier session are listed,
\* downloadable and deletable with the JWT of a later login
C23_UserIdIsStable ==
    /\ \A e \in DOMAIN users :
           /\ users[e].email = e
           /\ \E b \in bearers : b.payload.email = e
    /\ \A d, e \in DOMAIN users : users[d].id = users[e].id => d = e
    /\ \A id \in DOMAIN files : \E e \in DOMAIN users : id \in FilesOf(e)
    /\ \A b \in bearers :
           LET e == b.payload.email
               listed == serverFiles(b, now, files).res
           IN  /\ e \in DOMAIN users
               /\ b.payload.id = users[e].id
               /\ listed.status = 200
               /\ listed.files = FilesOf(e)
               /\ \A id \in listed.files :
                      LET deleted == serverDelete(b, id, now, files)
                      IN  /\ serverDownload(b, id, now, files).res.status = 200
                          /\ deleted.res.status = 200
                          /\ id \notin DOMAIN deleted.files
    /\ (res.route = "verify-token" /\ res.status = 200) =>
           /\ res.jwt \in bearers
           /\ res.jwt.payload.email = res.user
           /\ res.jwt.payload.id = users[res.user].id

\* a file uploaded in one session is downloaded with the JWT of a later login
C23_Witness ==
    /\ res.route = "file-download"
    /\ res.status = 200
    /\ req.bearer \in bearers
    /\ req.key \in DOMAIN files
    /\ req.bearer.payload.iat > files[req.key].uploadedAt
    /\ \E b \in bearers : /\ b # req.bearer
                          /\ b.payload.email = req.bearer.payload.email
                          /\ b.payload.iat <= files[req.key].uploadedAt

====
